---- MODULE Spec2Model ----
(***************************************************************************)
(* Model of csrc/megatron/fused_rotary_positional_embedding.cpp: the two   *)
(* entry points fused_rope::fwd and fused_rope::bwd, each a list of ten    *)
(* TORCH_CHECKs over the shape/dtype metadata of its tensor arguments      *)
(* followed by a call of the external kernel (fwd_cuda / bwd_cuda).        *)
(*                                                                         *)
(* A call is executed by a thread one statement at a time: each TORCH_CHECK*)
(* is one step, the kernel call is one step, and the kernel's completion   *)
(* (a returned tensor or a thrown exception) is one step.                  *)
(***************************************************************************)
EXTENDS Integers, Sequences, FiniteSets, TLC

VARIABLES
    pending,      \* pending[t]: the call thread t is about to make, or NoCall
    args,         \* args[t]: the parameters of t's call
    pc,           \* pc[t]: idle, fwd, bwd (in the function), kernel, returned, raised
    line,         \* line[t]: the TORCH_CHECK t is at (NumChecks + 1: the return statement)
    sizeReads,    \* sizeReads[t]: the size(i) calls made so far, as <<parameter, i>>
    rankChecked,  \* rankChecked[t]: the parameters whose dim() == 4 check has passed
    kernelCalls,  \* kernelCalls[t]: the kernel invocations made by t's call
    kernelOut,    \* kernelOut[t]: the tensor the kernel returned to t
    kernelErr,    \* kernelErr[t]: the exception the kernel threw at t
    ret,          \* ret[t]: the tensor returned to the caller
    err           \* err[t]: the exception that left the function

vars == <<pending, args, pc, line, sizeReads, rankChecked, kernelCalls,
          kernelOut, kernelErr, ret, err>>

(***************************************************************************)
(* Bounds of the model.                                                    *)
(***************************************************************************)
MaxWidth == 2

Threads == {1, 2}
Dtypes == {"Float", "Half"}
SeqLens == {1, 2}
Widths == 1..MaxWidth
OtherRanks == {0, 3, 5}
KernelOutputs == {"out0", "out1"}
KernelErrors == {[kind |-> "OutOfMemoryError", msg |-> "CUDA out of memory"]}

(***************************************************************************)
(* Tensor metadata: the per-dimension sizes and the scalar type.           *)
(***************************************************************************)
Tensor(shape, dtype) == [shape |-> shape, dtype |-> dtype]

NoTensor == Tensor(<<>>, "none")

Ones(r) == [i \in 1..r |-> 1]

Rank4(seqs, mids, widths, dtypes) ==
    { Tensor(<<s, m[1], m[2], w>>, d) :
        s \in seqs, m \in mids, w \in widths, d \in dtypes }

OffRank(ranks, dtypes) == { Tensor(Ones(r), d) : r \in ranks, d \in dtypes }

Call(op, x, cos, sin, tr) ==
    [op |-> op, x |-> x, cos |-> cos, sin |-> sin, transpose_output |-> tr]

NoCall == Call("none", NoTensor, NoTensor, NoTensor, FALSE)

NoError == [kind |-> "none", msg |-> ""]

(***************************************************************************)
(* at::Tensor accessors.  size(i) of a dimension the tensor does not have  *)
(* raises an IndexError in the tensor library; OutOfRange stands for that. *)
(***************************************************************************)
OutOfRange == 0 - 1

Dim(t) == Len(t.shape)

Size(t, i) == IF i < Dim(t) THEN t.shape[i + 1] ELSE OutOfRange

ScalarType(t) == t.dtype

NumChecks == 10

(***************************************************************************)
(* fused_rope::fwd, lines 30-47: the k-th TORCH_CHECK's condition, the     *)
(* size(i) calls its evaluation makes (&& evaluates its right operand only *)
(* when the left one holds), the tensor whose rank it establishes, and its *)
(* message.                                                                *)
(***************************************************************************)
(* FwdCheck without the dtype check of line 46. *)
FwdCheckNoDtype(k, input, cos, sin) ==
    CASE k = 1 -> Dim(input) = 4
      [] k = 2 -> Dim(cos) = 4
      [] k = 3 -> Dim(sin) = 4
      [] k = 4 -> Size(input, 0) = Size(cos, 0)
      [] k = 5 -> Size(input, 0) = Size(sin, 0)
      [] k = 6 -> Size(cos, 1) = 1 /\ Size(cos, 2) = 1
      [] k = 7 -> Size(sin, 1) = 1 /\ Size(sin, 2) = 1
      [] k = 8 -> Size(cos, 3) = Size(sin, 3)
      [] k = 9 -> Size(input, 3) >= Size(cos, 3)
      [] k = 10 -> TRUE

(* FwdCheck with the checks of lines 41 and 43 in the other order. *)
FwdCheckSwapped(k, input, cos, sin) ==
    CASE k = 1 -> Dim(input) = 4
      [] k = 2 -> Dim(cos) = 4
      [] k = 3 -> Dim(sin) = 4
      [] k = 4 -> Size(input, 0) = Size(cos, 0)
      [] k = 5 -> Size(input, 0) = Size(sin, 0)
      [] k = 6 -> Size(cos, 1) = 1 /\ Size(cos, 2) = 1
      [] k = 7 -> Size(sin, 1) = 1 /\ Size(sin, 2) = 1
      [] k = 8 -> Size(input, 3) >= Size(cos, 3)
      [] k = 9 -> Size(cos, 3) = Size(sin, 3)
      [] k = 10 -> ScalarType(cos) = ScalarType(sin)

(* FwdCheck with > for >= in line 43. *)
FwdCheckStrict(k, input, cos, sin) ==
    CASE k = 1 -> Dim(input) = 4
      [] k = 2 -> Dim(cos) = 4
      [] k = 3 -> Dim(sin) = 4
      [] k = 4 -> Size(input, 0) = Size(cos, 0)
      [] k = 5 -> Size(input, 0) = Size(sin, 0)
      [] k = 6 -> Size(cos, 1) = 1 /\ Size(cos, 2) = 1
      [] k = 7 -> Size(sin, 1) = 1 /\ Size(sin, 2) = 1
      [] k = 8 -> Size(cos, 3) = Size(sin, 3)
      [] k = 9 -> Size(input, 3) > Size(cos, 3)
      [] k = 10 -> ScalarType(cos) = ScalarType(sin)

(* FwdCheck with line 46 also comparing the dtype of input. *)
FwdCheckInputDtype(k, input, cos, sin) ==
    CASE k = 1 -> Dim(input) = 4
      [] k = 2 -> Dim(cos) = 4
      [] k = 3 -> Dim(sin) = 4
      [] k = 4 -> Size(input, 0) = Size(cos, 0)
      [] k = 5 -> Size(input, 0) = Size(sin, 0)
      [] k = 6 -> Size(cos, 1) = 1 /\ Size(cos, 2) = 1
      [] k = 7 -> Size(sin, 1) = 1 /\ Size(sin, 2) = 1
      [] k = 8 -> Size(cos, 3) = Size(sin, 3)
      [] k = 9 -> Size(input, 3) >= Size(cos, 3)
      [] k = 10 -> ScalarType(cos) = ScalarType(sin) /\ ScalarType(input) = ScalarType(cos)

(* FwdCheck without the rank check of line 32. *)
FwdCheckNoSinRank(k, input, cos, sin) ==
    CASE k = 1 -> Dim(input) = 4
      [] k = 2 -> Dim(cos) = 4
      [] k = 3 -> TRUE
      [] k = 4 -> Size(input, 0) = Size(cos, 0)
      [] k = 5 -> Size(input, 0) = Size(sin, 0)
      [] k = 6 -> Size(cos, 1) = 1 /\ Size(cos, 2) = 1
      [] k = 7 -> Size(sin, 1) = 1 /\ Size(sin, 2) = 1
      [] k = 8 -> Size(cos, 3) = Size(sin, 3)
      [] k = 9 -> Size(input, 3) >= Size(cos, 3)
      [] k = 10 -> ScalarType(cos) = ScalarType(sin)

FwdCheck(k, input, cos, sin) ==
    CASE k = 1 -> Dim(input) = 4
      [] k = 2 -> Dim(cos) = 4
      [] k = 3 -> Dim(sin) = 4
      [] k = 4 -> Size(input, 0) = Size(cos, 0)
      [] k = 5 -> Size(input, 0) = Size(sin, 0)
      [] k = 6 -> Size(cos, 1) = 1 /\ Size(cos, 2) = 1
      [] k = 7 -> Size(sin, 1) = 1 /\ Size(sin, 2) = 1
      [] k = 8 -> Size(cos, 3) = Size(sin, 3)
      [] k = 9 -> Size(input, 3) >= Size(cos, 3)
      [] k = 10 -> ScalarType(cos) = ScalarType(sin)

FwdReads(k, input, cos, sin) ==
    CASE k = 4 -> {<<"input", 0>>, <<"cos", 0>>}
      [] k = 5 -> {<<"input", 0>>, <<"sin", 0>>}
      [] k = 6 -> {<<"cos", 1>>} \cup
                  (IF Size(cos, 1) = 1 THEN {<<"cos", 2>>} ELSE {})
      [] k = 7 -> {<<"sin", 1>>} \cup
                  (IF Size(sin, 1) = 1 THEN {<<"sin", 2>>} ELSE {})
      [] k = 8 -> {<<"cos", 3>>, <<"sin", 3>>}
      [] k = 9 -> {<<"input", 3>>, <<"cos", 3>>}
      [] OTHER -> {}

FwdRankOf(k) ==
    CASE k = 1 -> {"input"}
      [] k = 2 -> {"cos"}
      [] k = 3 -> {"sin"}
      [] OTHER -> {}

(* FwdMsg with the message of line 42 repeated in line 47. *)
FwdMsgDup(k) ==
    CASE k = 1 -> "expected 4D tensor"
      [] k = 2 -> "expected 4D tensor"
      [] k = 3 -> "expected 4D tensor"
      [] k = 4 -> "expected input and cos tensor have the same sequence length"
      [] k = 5 -> "expected input and sin tensor have the same sequence length"
      [] k = 6 -> "expected the second and third dims of the cos tensor equal 1"
      [] k = 7 -> "expected the second and third dims of the sin tensor equal 1"
      [] k = 8 -> "expected cos and sin tensor have the same last dim"
      [] k = 9 -> "expected the last dim of the input tensor equals or is greater than the cos tensor"
      [] k = 10 -> "expected cos and sin tensor have the same last dim"

FwdMsg(k) ==
    CASE k = 1 -> "expected 4D tensor"
      [] k = 2 -> "expected 4D tensor"
      [] k = 3 -> "expected 4D tensor"
      [] k = 4 -> "expected input and cos tensor have the same sequence length"
      [] k = 5 -> "expected input and sin tensor have the same sequence length"
      [] k = 6 -> "expected the second and third dims of the cos tensor equal 1"
      [] k = 7 -> "expected the second and third dims of the sin tensor equal 1"
      [] k = 8 -> "expected cos and sin tensor have the same last dim"
      [] k = 9 -> "expected the last dim of the input tensor equals or is greater than the cos tensor"
      [] k = 10 -> "expected cos and sin tensor have the same dtype"

(***************************************************************************)
(* fused_rope::bwd, lines 54-73.                                           *)
(***************************************************************************)
(* BwdCheck with > for >= in line 69. *)
BwdCheckStrict(k, output_grads, cos, sin) ==
    CASE k = 1 -> Dim(output_grads) = 4
      [] k = 2 -> Dim(cos) = 4
      [] k = 3 -> Dim(sin) = 4
      [] k = 4 -> Size(output_grads, 0) = Size(cos, 0)
      [] k = 5 -> Size(output_grads, 0) = Size(sin, 0)
      [] k = 6 -> Size(cos, 1) = 1 /\ Size(cos, 2) = 1
      [] k = 7 -> Size(sin, 1) = 1 /\ Size(sin, 2) = 1
      [] k = 8 -> Size(cos, 3) = Size(sin, 3)
      [] k = 9 -> Size(output_grads, 3) > Size(cos, 3)
      [] k = 10 -> ScalarType(cos) = ScalarType(sin)

BwdCheck(k, output_grads, cos, sin) ==
    CASE k = 1 -> Dim(output_grads) = 4
      [] k = 2 -> Dim(cos) = 4
      [] k = 3 -> Dim(sin) = 4
      [] k = 4 -> Size(output_grads, 0) = Size(cos, 0)
      [] k = 5 -> Size(output_grads, 0) = Size(sin, 0)
      [] k = 6 -> Size(cos, 1) = 1 /\ Size(cos, 2) = 1
      [] k = 7 -> Size(sin, 1) = 1 /\ Size(sin, 2) = 1
      [] k = 8 -> Size(cos, 3) = Size(sin, 3)
      [] k = 9 -> Size(output_grads, 3) >= Size(cos, 3)
      [] k = 10 -> ScalarType(cos) = ScalarType(sin)

BwdReads(k, output_grads, cos, sin) ==
    CASE k = 4 -> {<<"output_grads", 0>>, <<"cos", 0>>}
      [] k = 5 -> {<<"output_grads", 0>>, <<"sin", 0>>}
      [] k = 6 -> {<<"cos", 1>>} \cup
                  (IF Size(cos, 1) = 1 THEN {<<"cos", 2>>} ELSE {})
      [] k = 7 -> {<<"sin", 1>>} \cup
                  (IF Size(sin, 1) = 1 THEN {<<"sin", 2>>} ELSE {})
      [] k = 8 -> {<<"cos", 3>>, <<"sin", 3>>}
      [] k = 9 -> {<<"output_grads", 3>>, <<"cos", 3>>}
      [] OTHER -> {}

BwdRankOf(k) ==
    CASE k = 1 -> {"output_grads"}
      [] k = 2 -> {"cos"}
      [] k = 3 -> {"sin"}
      [] OTHER -> {}

BwdMsg(k) ==
    CASE k = 1 -> "expected 4D tensor"
      [] k = 2 -> "expected 4D tensor"
      [] k = 3 -> "expected 4D tensor"
      [] k = 4 -> "expected output_grads and cos tensor have the same sequence length"
      [] k = 5 -> "expected output_grads and sin tensor have the same sequence length"
      [] k = 6 -> "expected the second and third dims of the cos tensor equal 1"
      [] k = 7 -> "expected the second and third dims of the sin tensor equal 1"
      [] k = 8 -> "expected cos and sin tensor have the same last dim"
      [] k = 9 -> "expected the last dim of the output_grads tensor equals or is greater than the cos tensor"
      [] k = 10 -> "expected cos and sin tensor have the same dtype"

(***************************************************************************)
(* Lines 49 and 75: the arguments handed to the kernel, the value returned *)
(* to the caller, and the exception that leaves the function when the      *)
(* kernel throws (neither function has a try block).                       *)
(***************************************************************************)
(* FwdKernelArgs with the flag not forwarded. *)
FwdKernelArgsDropFlag(input, cos, sin, transpose_output) ==
    [kernel |-> "fwd_cuda", x |-> input, cos |-> cos, sin |-> sin,
     transpose_output |-> FALSE]

(* FwdKernelArgs with the tensors taken from storage shared by all calls. *)
FwdKernelArgsShared(input, cos, sin, transpose_output) ==
    [kernel |-> "fwd_cuda", x |-> args[1].x, cos |-> args[1].cos,
     sin |-> args[1].sin, transpose_output |-> transpose_output]

FwdKernelArgs(input, cos, sin, transpose_output) ==
    [kernel |-> "fwd_cuda", x |-> input, cos |-> cos, sin |-> sin,
     transpose_output |-> transpose_output]

BwdKernelArgs(output_grads, cos, sin, transpose_output) ==
    [kernel |-> "bwd_cuda", x |-> output_grads, cos |-> cos, sin |-> sin,
     transpose_output |-> transpose_output]

FwdReturn(out) == out

BwdReturn(out) == out

(* FwdThrow with the kernel's exception rewrapped as a check failure. *)
FwdThrowWrapped(e) == [kind |-> "TORCH_CHECK", msg |-> e.msg]

FwdThrow(e) == e

BwdThrow(e) == e

(***************************************************************************)
(* TORCH_CHECK and at::Tensor::size failures.                              *)
(***************************************************************************)
TorchCheckError(msg) == [kind |-> "TORCH_CHECK", msg |-> msg]

IndexError == [kind |-> "IndexError", msg |-> "Dimension out of range"]

Param(c, name) ==
    CASE name = "cos" -> c.cos
      [] name = "sin" -> c.sin
      [] OTHER -> c.x

ReadsOutOfRange(c, reads) ==
    \E r \in reads : Size(Param(c, r[1]), r[2]) = OutOfRange

(***************************************************************************)
(* The steps of a thread.                                                  *)
(***************************************************************************)
Invoke(t) ==
    /\ pc[t] = "idle"
    /\ pending[t] # NoCall
    /\ args' = [args EXCEPT ![t] = pending[t]]
    /\ pending' = [pending EXCEPT ![t] = NoCall]
    /\ pc' = [pc EXCEPT ![t] = pending[t].op]
    /\ line' = [line EXCEPT ![t] = 1]
    /\ UNCHANGED <<sizeReads, rankChecked, kernelCalls, kernelOut, kernelErr, ret,
                   err>>

CheckStep(t, holds, reads, rankOf, msg) ==
    /\ sizeReads' = [sizeReads EXCEPT ![t] = @ \cup reads]
    /\ IF ReadsOutOfRange(args[t], reads)
       THEN /\ pc' = [pc EXCEPT ![t] = "raised"]
            /\ err' = [err EXCEPT ![t] = IndexError]
            /\ UNCHANGED <<line, rankChecked>>
       ELSE IF holds
       THEN /\ line' = [line EXCEPT ![t] = @ + 1]
            /\ rankChecked' = [rankChecked EXCEPT ![t] = @ \cup rankOf]
            /\ UNCHANGED <<pc, err>>
       ELSE /\ pc' = [pc EXCEPT ![t] = "raised"]
            /\ err' = [err EXCEPT ![t] = TorchCheckError(msg)]
            /\ UNCHANGED <<line, rankChecked>>
    /\ UNCHANGED <<pending, args, kernelCalls, kernelOut, kernelErr, ret>>

FwdCheckStep(t) ==
    /\ pc[t] = "fwd"
    /\ line[t] \in 1..NumChecks
    /\ LET c == args[t]
           k == line[t]
       IN CheckStep(t, FwdCheck(k, c.x, c.cos, c.sin),
                    FwdReads(k, c.x, c.cos, c.sin), FwdRankOf(k), FwdMsg(k))

BwdCheckStep(t) ==
    /\ pc[t] = "bwd"
    /\ line[t] \in 1..NumChecks
    /\ LET c == args[t]
           k == line[t]
       IN CheckStep(t, BwdCheck(k, c.x, c.cos, c.sin),
                    BwdReads(k, c.x, c.cos, c.sin), BwdRankOf(k), BwdMsg(k))

Dispatch(t, kargs) ==
    /\ line[t] = NumChecks + 1
    /\ kernelCalls' = [kernelCalls EXCEPT ![t] = Append(@, kargs)]
    /\ pc' = [pc EXCEPT ![t] = "kernel"]
    /\ UNCHANGED <<pending, args, line, sizeReads, rankChecked, kernelOut,
                   kernelErr, ret, err>>

FwdDispatch(t) ==
    /\ pc[t] = "fwd"
    /\ LET c == args[t]
       IN Dispatch(t, FwdKernelArgs(c.x, c.cos, c.sin, c.transpose_output))

BwdDispatch(t) ==
    /\ pc[t] = "bwd"
    /\ LET c == args[t]
       IN Dispatch(t, BwdKernelArgs(c.x, c.cos, c.sin, c.transpose_output))

KernelReturns(t) ==
    /\ pc[t] = "kernel"
    /\ \E out \in KernelOutputs :
          /\ kernelOut' = [kernelOut EXCEPT ![t] = out]
          /\ ret' = [ret EXCEPT ![t] =
                        IF args[t].op = "fwd" THEN FwdReturn(out)
                                              ELSE BwdReturn(out)]
    /\ pc' = [pc EXCEPT ![t] = "returned"]
    /\ UNCHANGED <<pending, args, line, sizeReads, rankChecked, kernelCalls,
                   kernelErr, err>>

KernelThrows(t) ==
    /\ pc[t] = "kernel"
    /\ \E e \in KernelErrors :
          /\ kernelErr' = [kernelErr EXCEPT ![t] = e]
          /\ err' = [err EXCEPT ![t] =
                        IF args[t].op = "fwd" THEN FwdThrow(e)
                                              ELSE BwdThrow(e)]
    /\ pc' = [pc EXCEPT ![t] = "raised"]
    /\ UNCHANGED <<pending, args, line, sizeReads, rankChecked, kernelCalls,
                   kernelOut, ret>>

Next ==
    \E t \in Threads :
        \/ Invoke(t)
        \/ FwdCheckStep(t)
        \/ BwdCheckStep(t)
        \/ FwdDispatch(t)
        \/ BwdDispatch(t)
        \/ KernelReturns(t)
        \/ KernelThrows(t)

(***************************************************************************)
(* The calls the environment makes.                                        *)
(***************************************************************************)
Ops == {"fwd", "bwd"}

InputMids == {<<1, 1>>, <<2, 2>>}

TableMids == {<<1, 1>>, <<2, 1>>, <<1, 2>>}

Inputs == Rank4(SeqLens, InputMids, Widths, Dtypes) \cup OffRank(OtherRanks, {"Float"})

CosTables == Rank4(SeqLens, TableMids, Widths, {"Float"}) \cup OffRank(OtherRanks, {"Float"})

SinTables == Rank4(SeqLens, TableMids, Widths, Dtypes) \cup OffRank(OtherRanks, {"Float"})

Calls ==
    { Call(op, x, cos, sin, tr) :
        op \in Ops, x \in Inputs, cos \in CosTables, sin \in SinTables,
        tr \in BOOLEAN }

Idle(p) ==
    /\ pending = p
    /\ args = [t \in Threads |-> NoCall]
    /\ pc = [t \in Threads |-> "idle"]
    /\ line = [t \in Threads |-> 0]
    /\ sizeReads = [t \in Threads |-> {}]
    /\ rankChecked = [t \in Threads |-> {}]
    /\ kernelCalls = [t \in Threads |-> <<>>]
    /\ kernelOut = [t \in Threads |-> "none"]
    /\ kernelErr = [t \in Threads |-> NoError]
    /\ ret = [t \in Threads |-> "none"]
    /\ err = [t \in Threads |-> NoError]

(* One call at a time. *)
Init == \E c \in Calls : Idle([t \in Threads |-> IF t = 1 THEN c ELSE NoCall])

Spec == Init /\ [][Next]_vars

(* Two threads, each making a call of its own. *)
ConcCalls ==
    { Call(op, x, cos, sin, tr) :
        op \in Ops,
        x \in Rank4({1}, InputMids, Widths, {"Float"}) \cup OffRank({3}, {"Float"}),
        cos \in Rank4({1}, {<<1, 1>>}, Widths, {"Float"}),
        sin \in Rank4({1}, {<<1, 1>>}, {MaxWidth}, {"Float"}),
        tr \in BOOLEAN }

InitConc == \E p \in [Threads -> ConcCalls] : Idle(p)

SpecConc == InitConc /\ [][Next]_vars

(* Two threads whose calls agree on everything the checks look at: the     *)
(* second call is the first with the batch and head sizes and the dtype of *)
(* its first tensor, and the flag, chosen afresh.                          *)
PairCalls ==
    { Call(op, x, cos, sin, FALSE) :
        op \in Ops,
        x \in Rank4({1}, {<<1, 1>>}, Widths, {"Float"}) \cup OffRank({3}, {"Float"}),
        cos \in Rank4({1}, {<<1, 1>>, <<2, 1>>}, Widths, {"Float"}) \cup OffRank({5}, {"Float"}),
        sin \in Rank4(SeqLens, {<<1, 1>>}, Widths, Dtypes) }

Variants(c) ==
    { Call(c.op, x, c.cos, c.sin, tr) :
        x \in IF Dim(c.x) = 4
              THEN Rank4({c.x.shape[1]}, InputMids, {c.x.shape[4]}, Dtypes)
              ELSE { Tensor(c.x.shape, d) : d \in Dtypes },
        tr \in BOOLEAN }

InitPair ==
    \E c \in PairCalls : \E v \in Variants(c) :
        Idle([t \in Threads |-> IF t = 1 THEN c ELSE v])

SpecPair == InitPair /\ [][Next]_vars

(***************************************************************************)
(* The contract, stated on tensor metadata independently of the code.      *)
(***************************************************************************)
Started(t) == pc[t] # "idle"

Finished(t) == pc[t] \in {"returned", "raised"}

Rejected(t) == pc[t] = "raised" /\ err[t].kind = "TORCH_CHECK"

Delegated(t) == kernelCalls[t] # <<>>

IsFwd(t) == args[t].op = "fwd"

IsBwd(t) == args[t].op = "bwd"

(* The k-th invariant, in the order of the contract, is violated. *)
Violated(k, c) ==
    CASE k = 1 -> Len(c.x.shape) # 4
      [] k = 2 -> Len(c.cos.shape) # 4
      [] k = 3 -> Len(c.sin.shape) # 4
      [] k = 4 -> c.x.shape[1] # c.cos.shape[1]
      [] k = 5 -> c.x.shape[1] # c.sin.shape[1]
      [] k = 6 -> ~(c.cos.shape[2] = 1 /\ c.cos.shape[3] = 1)
      [] k = 7 -> ~(c.sin.shape[2] = 1 /\ c.sin.shape[3] = 1)
      [] k = 8 -> c.cos.shape[4] # c.sin.shape[4]
      [] k = 9 -> c.x.shape[4] < c.cos.shape[4]
      [] k = 10 -> c.cos.dtype # c.sin.dtype

RanksOk(c) == \A k \in 1..3 : ~Violated(k, c)

(* The first violated invariant, 0 when all hold. *)
FirstViolated(c) ==
    IF ~RanksOk(c)
    THEN CHOOSE k \in 1..3 : Violated(k, c) /\ \A j \in 1..(k - 1) : ~Violated(j, c)
    ELSE IF \E k \in 4..10 : Violated(k, c)
    THEN CHOOSE k \in 4..10 : Violated(k, c) /\ \A j \in 4..(k - 1) : ~Violated(j, c)
    ELSE 0

Valid(c) == FirstViolated(c) = 0

MsgOf(op, k) == IF op = "fwd" THEN FwdMsg(k) ELSE BwdMsg(k)

PassedThrough(t, kernel) ==
    kernelCalls[t] =
        << [kernel |-> kernel, x |-> args[t].x, cos |-> args[t].cos,
            sin |-> args[t].sin,
            transpose_output |-> args[t].transpose_output] >>

(***************************************************************************)
(* C1: a call of Forward whose metadata satisfies every invariant is       *)
(* never rejected by a check; once it has left the checks the forward      *)
(* kernel has been invoked exactly once with the call's four arguments     *)
(* unmodified, and the value it returns is the value the kernel returned.  *)
(***************************************************************************)
C1_ForwardDelegates ==
    \A t \in Threads :
        (Started(t) /\ IsFwd(t) /\ Valid(args[t])) =>
            /\ ~Rejected(t)
            /\ err[t].kind # "IndexError"
            /\ Len(kernelCalls[t]) <= 1
            /\ pc[t] \in {"kernel", "returned", "raised"} => PassedThrough(t, "fwd_cuda")
            /\ pc[t] = "returned" => ret[t] = kernelOut[t] /\ ret[t] \in KernelOutputs
            /\ pc[t] = "raised" => err[t] = kernelErr[t]

C1_Witness ==
    \E t \in Threads :
        /\ IsFwd(t) /\ Valid(args[t]) /\ pc[t] = "returned"
        /\ args[t].transpose_output
        /\ args[t].x.shape[4] > args[t].cos.shape[4]
        /\ args[t].x.dtype # args[t].cos.dtype
        /\ kernelOut[t] = "out1"

(***************************************************************************)
(* C2: validation is all-or-nothing.  In every reachable state of a call   *)
(* of Forward, the kernel has been invoked only if every invariant holds,  *)
(* and a call with a violated invariant, once over, has ended in the       *)
(* error of a check without any kernel invocation.                         *)
(***************************************************************************)
C2_KernelOnlyWhenValid ==
    \A t \in Threads :
        (Started(t) /\ IsFwd(t)) =>
            /\ Delegated(t) => Valid(args[t])
            /\ pc[t] \in {"kernel", "returned"} => Valid(args[t])
            /\ (~Valid(args[t]) /\ Finished(t)) =>
                   /\ Rejected(t)
                   /\ kernelCalls[t] = <<>>
                   /\ kernelOut[t] = "none" /\ kernelErr[t] = NoError
                   /\ ret[t] = "none"

C2_Witness ==
    \E t \in Threads :
        /\ IsFwd(t) /\ Rejected(t) /\ kernelCalls[t] = <<>>
        /\ RanksOk(args[t])
        /\ \A k \in 4..9 : ~Violated(k, args[t])
        /\ Violated(10, args[t])

(***************************************************************************)
(* C3: Backward mirrors Forward.  A call of Backward stops at the check    *)
(* at which Forward's checks stop on the same metadata, accepts exactly    *)
(* when Forward's checks all pass, and on acceptance invokes the backward  *)
(* kernel, never the forward one, exactly once with its four arguments     *)
(* unmodified, returning that kernel's result.                             *)
(***************************************************************************)
FwdFails(k, c) ==
    \/ ReadsOutOfRange(c, FwdReads(k, c.x, c.cos, c.sin))
    \/ ~FwdCheck(k, c.x, c.cos, c.sin)

FwdStopsAt(c) ==
    IF \E k \in 1..NumChecks : FwdFails(k, c)
    THEN CHOOSE k \in 1..NumChecks :
             FwdFails(k, c) /\ \A j \in 1..(k - 1) : ~FwdFails(j, c)
    ELSE 0

C3_BackwardMirrorsForward ==
    \A t \in Threads :
        (Started(t) /\ IsBwd(t)) =>
            LET f == FwdStopsAt(args[t]) IN
            /\ line[t] <= (IF f = 0 THEN NumChecks + 1 ELSE f)
            /\ Delegated(t) => f = 0 /\ PassedThrough(t, "bwd_cuda")
            /\ (Finished(t) /\ f = 0) => Delegated(t) /\ ~Rejected(t)
            /\ (Finished(t) /\ f # 0) =>
                   /\ Rejected(t) /\ line[t] = f
                   /\ kernelCalls[t] = <<>>
            /\ pc[t] = "returned" => ret[t] = kernelOut[t] /\ ret[t] \in KernelOutputs

C3_Witness ==
    \E t \in Threads :
        /\ IsBwd(t) /\ Rejected(t) /\ line[t] = 9
        /\ FwdStopsAt(args[t]) = 9

(***************************************************************************)
(* C4 as stated: the message of a rejected call identifies the check that  *)
(* fired, no two checks of one operation sharing a message.                *)
(***************************************************************************)
C4_MessageIdentifiesCheck ==
    \A t \in Threads :
        Rejected(t) =>
            \A k \in 1..NumChecks :
                MsgOf(args[t].op, k) = err[t].msg => k = line[t]

(***************************************************************************)
(* C4 as amended: the message of a rejected call identifies the check that *)
(* fired except among the three rank checks, which share one message; a    *)
(* rank failure is told from every other failure, and every other failure  *)
(* is told from all the others.                                            *)
(***************************************************************************)
C4_MessageIdentifiesCheckUpToRank ==
    \A t \in Threads :
        Rejected(t) =>
            /\ err[t].msg = MsgOf(args[t].op, line[t])
            /\ \A k \in 1..NumChecks :
                   MsgOf(args[t].op, k) = err[t].msg =>
                       \/ k = line[t]
                       \/ k \in 1..3 /\ line[t] \in 1..3

C4_Witness ==
    \E t \in Threads :
        /\ Rejected(t) /\ line[t] = 2
        /\ err[t].msg = MsgOf(args[t].op, 1)

(***************************************************************************)
(* C5: a rejected call of Forward or Backward reports the first violated   *)
(* invariant in the fixed order (rank of Input/OutputGrads, of Cos, of     *)
(* Sin, sequence length against Cos, against Sin, Cos broadcast dims, Sin  *)
(* broadcast dims, Cos/Sin last dim, width ordering, Cos/Sin dtype), and   *)
(* no check after the first failing one is ever reached.                   *)
(***************************************************************************)
C5_FirstFailingCheckReported ==
    \A t \in Threads :
        Started(t) =>
            LET f == FirstViolated(args[t]) IN
            /\ f # 0 => line[t] <= f
            /\ Rejected(t) =>
                   /\ f # 0 /\ line[t] = f
                   /\ err[t] = TorchCheckError(MsgOf(args[t].op, f))
            /\ (Finished(t) /\ f # 0) => Rejected(t)

C5_Witness ==
    \E t \in Threads :
        /\ IsFwd(t) /\ Rejected(t) /\ line[t] = 8
        /\ RanksOk(args[t])
        /\ Violated(8, args[t]) /\ Violated(9, args[t]) /\ Violated(10, args[t])
        /\ err[t].msg = "expected cos and sin tensor have the same last dim"

(***************************************************************************)
(* C6: when all checks pass and the kernel throws e, the call ends with    *)
(* exactly e: not rewrapped as a check failure, not retried (one kernel    *)
(* invocation), not suppressed (no tensor is returned).                    *)
(***************************************************************************)
C6_KernelErrorPropagates ==
    \A t \in Threads :
        kernelErr[t] # NoError =>
            /\ pc[t] = "raised"
            /\ err[t] = kernelErr[t]
            /\ err[t] \in KernelErrors
            /\ ret[t] = "none"
            /\ Len(kernelCalls[t]) = 1

C6_Witness ==
    \E t \in Threads :
        /\ IsFwd(t) /\ Valid(args[t])
        /\ pc[t] = "raised" /\ kernelErr[t] \in KernelErrors

(***************************************************************************)
(* C8: the width-ordering check is non-strict.  With every other invariant *)
(* satisfied, a call whose first tensor is as wide as or wider than Cos is *)
(* not rejected and is delegated, and a call is rejected with the          *)
(* width-ordering message exactly when its first tensor is narrower.       *)
(***************************************************************************)
OthersHold(c) == \A k \in (1..10) \ {9} : RanksOk(c) /\ ~Violated(k, c)

C8_WidthOrderingNonStrict ==
    \A t \in Threads :
        (Started(t) /\ OthersHold(args[t])) =>
            LET c == args[t] IN
            /\ c.x.shape[4] >= c.cos.shape[4] =>
                   /\ ~Rejected(t)
                   /\ Finished(t) => Delegated(t)
            /\ c.x.shape[4] < c.cos.shape[4] =>
                   /\ ~Delegated(t)
                   /\ Finished(t) =>
                          /\ Rejected(t) /\ line[t] = 9
                          /\ err[t].msg = MsgOf(c.op, 9)
            /\ (Rejected(t) /\ line[t] = 9) => c.x.shape[4] < c.cos.shape[4]

C8_Witness ==
    \E t \in Threads :
        /\ IsFwd(t) /\ OthersHold(args[t])
        /\ args[t].x.shape[4] = args[t].cos.shape[4]
        /\ pc[t] = "returned"

(***************************************************************************)
(* C10: every size(i) call is guarded by the rank checks: at every moment, *)
(* each size(i) made so far was made on a tensor whose dim() == 4 check    *)
(* had already passed, with i below the tensor's rank, and no call ends in *)
(* the tensor library's out-of-range error, whatever the ranks are.        *)
(***************************************************************************)
C10_SizeReadsGuarded ==
    \A t \in Threads :
        /\ \A r \in sizeReads[t] :
               /\ r[1] \in rankChecked[t]
               /\ Dim(Param(args[t], r[1])) = 4
               /\ r[2] \in 0..3
        /\ err[t].kind # "IndexError"
        /\ Finished(t) =>
               \/ Rejected(t)
               \/ Delegated(t) /\ (pc[t] = "returned" \/ err[t] = kernelErr[t])

C10_Witness ==
    \E t \in Threads :
        /\ Dim(args[t].x) = 4 /\ Dim(args[t].cos) = 4 /\ Dim(args[t].sin) = 3
        /\ Rejected(t) /\ line[t] = 3
        /\ sizeReads[t] = {}

(***************************************************************************)
(* C7: no shared mutable state.  Under every interleaving of the steps of  *)
(* two concurrent calls, each call stops where it would stop alone (the    *)
(* first violated invariant of its own metadata, with that check's error), *)
(* and a kernel invocation carries the arguments of the call that made it. *)
(***************************************************************************)
KernelOf(op) == IF op = "fwd" THEN "fwd_cuda" ELSE "bwd_cuda"

C7_CallsIndependent ==
    \A t \in Threads :
        Started(t) =>
            LET f == FirstViolated(args[t]) IN
            /\ line[t] <= (IF f = 0 THEN NumChecks + 1 ELSE f)
            /\ Delegated(t) => f = 0 /\ PassedThrough(t, KernelOf(args[t].op))
            /\ Finished(t) =>
                   IF f = 0
                   THEN Delegated(t) /\ (pc[t] = "returned" \/ err[t] = kernelErr[t])
                   ELSE /\ ~Delegated(t)
                        /\ line[t] = f
                        /\ err[t] = TorchCheckError(MsgOf(args[t].op, f))

C7_Witness ==
    \E t \in Threads : \E u \in Threads :
        /\ pc[t] = "kernel" /\ pc[u] = "kernel"
        /\ args[t].op # args[u].op
        /\ args[t].x # args[u].x
        /\ args[t].transpose_output # args[u].transpose_output

(***************************************************************************)
(* C9: the validation outcome is a function of rank, size 0 and size 3 of  *)
(* the first tensor and of the rank, sizes and dtype of Cos and of Sin     *)
(* alone: two calls of one operation that agree on these, whatever their   *)
(* flag and the dtype, size 1 and size 2 of their first tensor, are both   *)
(* delegated or both rejected, and then at the same check with the same    *)
(* error.                                                                  *)
(***************************************************************************)
SameRelevant(c, d) ==
    /\ c.op = d.op
    /\ Len(c.x.shape) = Len(d.x.shape)
    /\ Size(c.x, 0) = Size(d.x, 0)
    /\ Size(c.x, 3) = Size(d.x, 3)
    /\ c.cos = d.cos
    /\ c.sin = d.sin

Validated(t) == Delegated(t) \/ Finished(t)

C9_OutcomeDependsOnCheckedMetadataOnly ==
    \A t \in Threads : \A u \in Threads :
        (Validated(t) /\ Validated(u) /\ SameRelevant(args[t], args[u])) =>
            /\ Delegated(t) <=> Delegated(u)
            /\ Rejected(t) <=> Rejected(u)
            /\ Rejected(t) => line[t] = line[u] /\ err[t] = err[u]
            /\ err[t].kind # "IndexError"

C9_Witness ==
    \E t \in Threads : \E u \in Threads :
        /\ SameRelevant(args[t], args[u])
        /\ Delegated(t) /\ Delegated(u)
        /\ args[t].x.dtype # args[u].x.dtype
        /\ args[u].x.dtype # args[u].cos.dtype
        /\ args[t].x.shape[2] # args[u].x.shape[2]
        /\ args[t].x.shape[3] # args[u].x.shape[3]
        /\ args[t].transpose_output # args[u].transpose_output

====
